---- MODULE Spec2Model ----
(***************************************************************************)
(* cred-tool (src/main.rs): one invocation of the JIT runner token tool.   *)
(* Strings whose characters matter (stage and target names, labels, runner *)
(* names, tokens) are sequences of one-character strings.                  *)
(***************************************************************************)
EXTENDS Integers, Sequences, FiniteSets, TLC

VARIABLES
    argv,      \* the command line: raw option values, before parsing
    pc,        \* position of main()
    args,      \* Option<Args>: the parsed arguments
    name,      \* Option<RunnerName>
    labels,    \* Option<RunnerLabels>
    info,      \* Option<CaliptraCiInfo>
    key,       \* Option<bytes read from key_path>, then the parsed key
    github,    \* Option<OctocrabWrapper>
    apiCalls,  \* the create_org_jit_runner_config requests sent so far
    response,  \* Option<what the API answered to the request>
    result,    \* Option<Result<String>>: what runner_jit_token returned
    clock,     \* Option<the instant read by Local::now()>
    stdout,    \* characters written to standard output
    stderr,    \* diagnostics written to standard error
    exitCode,  \* Option<process exit status>
    trace      \* the components of main() entered so far, in order

vars == <<argv, pc, args, name, labels, info, key, github, apiCalls, response,
          result, clock, stdout, stderr, exitCode, trace>>

----------------------------------------------------------------------------
(* Option and Result values *)

None == [some |-> FALSE]
Some(x) == [some |-> TRUE, v |-> x]
Ok(x) == [ok |-> TRUE, v |-> x]
Err(e) == [ok |-> FALSE, e |-> e]

----------------------------------------------------------------------------
(* Bounds of the model *)

\* rand::rng() is modelled by MaxSeed + 1 different byte streams
MaxSeed == 2

----------------------------------------------------------------------------
(* Character strings *)

s_carl == <<"c","a","r","l">>
s_staging == <<"s","t","a","g","i","n","g">>
s_prod == <<"p","r","o","d">>
s_zcu104 == <<"z","c","u","1","0","4">>
s_zcu104_nightly == <<"z","c","u","1","0","4","-","n","i","g","h","t","l","y">>
s_vck190 == <<"v","c","k","1","9","0">>
s_caliptra_fpga == <<"c","a","l","i","p","t","r","a","-","f","p","g","a">>
s_caliptra_fpga_nightly == s_caliptra_fpga \o <<"-","n","i","g","h","t","l","y">>
s_dash_staging == <<"-","s","t","a","g","i","n","g">>
s_dash == <<"-">>
s_newline == <<"\n">>

\* char::to_lowercase on the ASCII letters; every other character is kept
LowerChar(c) ==
    CASE c = "A" -> "a" [] c = "B" -> "b" [] c = "C" -> "c" [] c = "D" -> "d"
      [] c = "E" -> "e" [] c = "F" -> "f" [] c = "G" -> "g" [] c = "H" -> "h"
      [] c = "I" -> "i" [] c = "J" -> "j" [] c = "K" -> "k" [] c = "L" -> "l"
      [] c = "M" -> "m" [] c = "N" -> "n" [] c = "O" -> "o" [] c = "P" -> "p"
      [] c = "Q" -> "q" [] c = "R" -> "r" [] c = "S" -> "s" [] c = "T" -> "t"
      [] c = "U" -> "u" [] c = "V" -> "v" [] c = "W" -> "w" [] c = "X" -> "x"
      [] c = "Y" -> "y" [] c = "Z" -> "z" [] OTHER -> c

\* str::to_lowercase
ToLowercase(s) == [i \in 1..Len(s) |-> LowerChar(s[i])]

----------------------------------------------------------------------------
(* Stage and FpgaTarget: the enums and their FromStr *)

Stage == {"Carl", "Staging", "Prod"}
FpgaTarget == {"Zcu104", "Zcu104Nightly", "Vck190"}

\* a FromStr that accepts every string: the fallback arm returns a stage
StageFromStrLenient(s) ==
    LET l == ToLowercase(s) IN
    IF l = s_staging THEN Ok("Staging")
    ELSE IF l = s_prod THEN Ok("Prod")
    ELSE Ok("Carl")

StageFromStr(s) ==
    LET l == ToLowercase(s) IN
    IF l = s_carl THEN Ok("Carl")
    ELSE IF l = s_staging THEN Ok("Staging")
    ELSE IF l = s_prod THEN Ok("Prod")
    ELSE Err([what |-> "stage", value |-> s])

FpgaTargetFromStr(s) ==
    LET l == ToLowercase(s) IN
    IF l = s_zcu104_nightly THEN Ok("Zcu104Nightly")
    ELSE IF l = s_zcu104 THEN Ok("Zcu104")
    ELSE IF l = s_vck190 THEN Ok("Vck190")
    ELSE Err([what |-> "fpga", value |-> s])

----------------------------------------------------------------------------
(* RunnerLabels::new *)

\* the postfix applied to every arm
RunnerLabelsNewAllPostfix(value, dry_run) ==
    LET postfix == IF dry_run THEN s_dash_staging ELSE <<>> IN
    CASE value = "Zcu104" -> <<s_caliptra_fpga \o postfix>>
      [] value = "Zcu104Nightly" ->
            <<s_caliptra_fpga \o postfix, s_caliptra_fpga_nightly \o postfix>>
      [] value = "Vck190" -> <<s_vck190 \o postfix>>

\* the nightly arm lists the nightly label first
RunnerLabelsNewSwapped(value, dry_run) ==
    LET postfix == IF dry_run THEN s_dash_staging ELSE <<>> IN
    CASE value = "Zcu104" -> <<s_caliptra_fpga>>
      [] value = "Zcu104Nightly" -> <<s_caliptra_fpga_nightly, s_caliptra_fpga>>
      [] value = "Vck190" -> <<s_vck190 \o postfix>>

RunnerLabelsNew(value, dry_run) ==
    LET postfix == IF dry_run THEN s_dash_staging ELSE <<>> IN
    CASE value = "Zcu104" -> <<s_caliptra_fpga>>
      [] value = "Zcu104Nightly" -> <<s_caliptra_fpga, s_caliptra_fpga_nightly>>
      [] value = "Vck190" -> <<s_vck190 \o postfix>>

----------------------------------------------------------------------------
(* RunnerName::new *)

NonceLen == 16
HexBase == 16
ByteRange == 256

HexDigits == <<"0","1","2","3","4","5","6","7","8","9","A","B","C","D","E","F">>
DecDigits == <<"0","1","2","3","4","5","6","7","8","9">>

\* format!("{:X}", n) for a u8: upper-case hexadecimal, no padding
FormatUpperHex(n) ==
    IF n < HexBase THEN <<HexDigits[n + 1]>>
    ELSE <<HexDigits[(n \div HexBase) + 1], HexDigits[(n % HexBase) + 1]>>

\* the i-th value of rng.random::<u8>() of the stream with this seed
RandomU8(seed, i) == (seed * 131 + i * 37 + 5) % ByteRange

\* the digit is formatted without the reduction modulo 16
NonceDigitUnreduced(seed, i) == FormatUpperHex(RandomU8(seed, i))

NonceDigit(seed, i) == FormatUpperHex(RandomU8(seed, i) % HexBase)

RECURSIVE Collect(_, _)
\* (0..16).map(..).collect::<String>()
Collect(seed, n) ==
    IF n = 0 THEN <<>> ELSE Collect(seed, n - 1) \o NonceDigit(seed, n)

\* zero-padded decimal of width w (chrono's %Y, %m, %d for years 0..9999)
RECURSIVE Pad(_, _)
Pad(n, w) == IF w = 0 THEN <<>> ELSE Pad(n \div 10, w - 1) \o <<DecDigits[(n % 10) + 1]>>

\* NaiveDate::format("%Y-%m-%d")
FormatDate(d) == Pad(d.y, 4) \o s_dash \o Pad(d.m, 2) \o s_dash \o Pad(d.d, 2)

\* Local::now().date_naive()
DateNaive(now) == now.local

BoardType(fpga_type) ==
    CASE fpga_type \in {"Zcu104", "Zcu104Nightly"} -> s_caliptra_fpga
      [] fpga_type = "Vck190" -> s_vck190

RunnerNameNew(fpga_type, identifier, location, now, seed) ==
    LET board_type == BoardType(fpga_type)
        current_date == FormatDate(DateNaive(now))
        rand_postfix == Collect(seed, NonceLen)
    IN board_type \o s_dash \o location \o s_dash \o identifier \o s_dash
          \o rand_postfix \o s_dash \o current_date

----------------------------------------------------------------------------
(* impl From<Args> for CaliptraCiInfo *)

Returned(x) == [panic |-> FALSE, v |-> x]
Panicked(m) == [panic |-> TRUE, msg |-> m]

\* the staging arm falls back to the production record
CaliptraCiInfoFromFallback(value) ==
    CASE value.stage = "Carl" ->
            Returned([github_app_id |-> 1160975,
                      github_installation_id |-> 61798278,
                      github_org_name |-> "clundin25-testorg",
                      key_path |-> value.key_path])
      [] value.stage \in {"Staging", "Prod"} ->
            Returned([github_app_id |-> 379559,
                      github_installation_id |-> 40993215,
                      github_org_name |-> "chipsalliance",
                      key_path |-> value.key_path])

\* the carl arm was copied from the prod arm and only the app id changed
CaliptraCiInfoFromCopied(value) ==
    CASE value.stage = "Carl" ->
            Returned([github_app_id |-> 1160975,
                      github_installation_id |-> 61798278,
                      github_org_name |-> "chipsalliance",
                      key_path |-> value.key_path])
      [] value.stage = "Staging" ->
            Panicked("not yet implemented: TODO: Set environment variables for staging")
      [] value.stage = "Prod" ->
            Returned([github_app_id |-> 379559,
                      github_installation_id |-> 40993215,
                      github_org_name |-> "chipsalliance",
                      key_path |-> value.key_path])

CaliptraCiInfoFrom(value) ==
    CASE value.stage = "Carl" ->
            Returned([github_app_id |-> 1160975,
                      github_installation_id |-> 61798278,
                      github_org_name |-> "clundin25-testorg",
                      key_path |-> value.key_path])
      [] value.stage = "Staging" ->
            Panicked("not yet implemented: TODO: Set environment variables for staging")
      [] value.stage = "Prod" ->
            Returned([github_app_id |-> 379559,
                      github_installation_id |-> 40993215,
                      github_org_name |-> "chipsalliance",
                      key_path |-> value.key_path])

----------------------------------------------------------------------------
(* The environment of one invocation *)

StageStrings ==
    {s_carl, <<"C","A","R","L">>, s_staging, <<"P","r","o","d">>,
     <<"q","a">>, <<>>, <<"p","r","o">>}
TargetStrings ==
    {s_zcu104, <<"Z","C","U","1","0","4">>, s_zcu104_nightly,
     <<"Z","c","u","1","0","4","-","N","i","g","h","t","l","y">>,
     s_vck190, <<"z","c","u","1","0","4","_","n","i","g","h","t","l","y">>,
     <<"z","c","u","1","0","2">>}
Identifiers == {<<"5">>, <<"1","2">>}
Locations == {<<"k","i","r">>, <<"s","-","1">>}
KeyPaths == {"/etc/ci/key.pem", "key.pem"}

OptionOf(S) == {None} \cup {Some(x) : x \in S}

\* command lines: --stage and --fpga-target may be absent; -h may be present
CommandLines ==
    {[stage |-> s, fpga_target |-> t, fpga_identifier |-> i, location |-> l,
      key_path |-> k, dry_run |-> d, help |-> h] :
        s \in OptionOf(StageStrings), t \in OptionOf(TargetStrings),
        i \in Identifiers, l \in Locations, k \in KeyPaths,
        d \in BOOLEAN, h \in BOOLEAN}

Date(y, m, d) == [y |-> y, m |-> m, d |-> d]
\* instants, each with its calendar date in UTC and in the local time zone
Clocks ==
    {[utc |-> Date(2026, 11, 2), local |-> Date(2026, 11, 2)],
     [utc |-> Date(2026, 12, 31), local |-> Date(2027, 1, 1)],
     [utc |-> Date(2025, 3, 9), local |-> Date(2025, 3, 8)]}

\* what std::fs::read(key_path) can return
FsReadOutcomes ==
    {Err("io: No such file or directory"), Err("io: Permission denied"),
     Ok("rsa_pem"), Ok("ec_pem"), Ok("garbage")}

\* what Octocrab::builder().app(..).build() and .installation(..) can return
BuildOutcomes == {"ok", "build_err", "installation_err"}

Tokens == {<<"e","y","J","0">>, <<"Q","U","J","D","=">>}
ApiErrors == {"network", "401 bad credentials", "404 org not found", "409 duplicate name"}

\* the answers of the create-org-JIT-runner-config endpoint to a request
ApiOutcomes(request) ==
    {Ok([runner |-> [id |-> 23, name |-> request.name],
         encoded_jit_config |-> tok]) : tok \in Tokens}
    \cup {Err(e) : e \in ApiErrors}

HelpText == <<"U","s","a","g","e">>

----------------------------------------------------------------------------
(* Process exit statuses *)

ExitSuccess == 0
ExitFailure == 1
ExitUsage == 2
ExitPanic == 101

DefaultRunnerGroup == 1

----------------------------------------------------------------------------
(* Init *)

Init ==
    /\ argv \in CommandLines
    /\ pc = "parse"
    /\ args = None
    /\ name = None
    /\ labels = None
    /\ info = None
    /\ key = None
    /\ github = None
    /\ apiCalls = <<>>
    /\ response = None
    /\ result = None
    /\ clock = None
    /\ stdout = <<>>
    /\ stderr = <<>>
    /\ exitCode = None
    /\ trace = <<>>

----------------------------------------------------------------------------
(* Args::parse() *)

\* the value errors the value parsers of --stage and --fpga-target raise
ValueErrors ==
    (IF argv.stage.some /\ ~StageFromStr(argv.stage.v).ok
     THEN {StageFromStr(argv.stage.v).e} ELSE {})
    \cup
    (IF argv.fpga_target.some /\ ~FpgaTargetFromStr(argv.fpga_target.v).ok
     THEN {FpgaTargetFromStr(argv.fpga_target.v).e} ELSE {})

MissingRequired == ~argv.stage.some \/ ~argv.fpga_target.some

\* -h/--help met before any invalid value: help on standard output, exit 0
ParseArgsHelp ==
    /\ pc = "parse"
    /\ argv.help
    /\ stdout' = stdout \o HelpText
    /\ exitCode' = Some(ExitSuccess)
    /\ pc' = "exited"
    /\ trace' = trace \o <<"parse", "help">>
    /\ UNCHANGED <<argv, args, name, labels, info, key, github, apiCalls,
                   response, result, clock, stderr>>

\* clap's Error::exit(): the message on standard error, exit 2.  With -h
\* on the command line an invalid value still wins when it comes first.
ParseArgsError ==
    /\ pc = "parse"
    /\ \/ ValueErrors # {}
       \/ ~argv.help /\ MissingRequired
    /\ \/ \E e \in ValueErrors :
            stderr' = Append(stderr, [kind |-> "usage", what |-> e.what, value |-> e.value])
       \/ /\ ValueErrors = {}
          /\ stderr' = Append(stderr, [kind |-> "usage", what |-> "missing"])
    /\ exitCode' = Some(ExitUsage)
    /\ pc' = "exited"
    /\ trace' = Append(trace, "parse")
    /\ UNCHANGED <<argv, args, name, labels, info, key, github, apiCalls,
                   response, result, clock, stdout>>

ParseArgsOk ==
    /\ pc = "parse"
    /\ ~argv.help
    /\ ~MissingRequired
    /\ ValueErrors = {}
    /\ args' = Some([stage |-> StageFromStr(argv.stage.v).v,
                     fpga_target |-> FpgaTargetFromStr(argv.fpga_target.v).v,
                     fpga_identifier |-> argv.fpga_identifier,
                     location |-> argv.location,
                     key_path |-> argv.key_path,
                     dry_run |-> argv.dry_run])
    /\ pc' = "banner"
    /\ trace' = Append(trace, "parse")
    /\ UNCHANGED <<argv, name, labels, info, key, github, apiCalls, response,
                   result, clock, stdout, stderr, exitCode>>

----------------------------------------------------------------------------
(* main(), after Args::parse() *)

\* eprintln!("Running for stage: {:?}", args.stage)
Banner ==
    /\ pc = "banner"
    /\ stderr' = Append(stderr, [kind |-> "banner", stage |-> args.v.stage])
    /\ pc' = "name"
    /\ UNCHANGED <<argv, args, name, labels, info, key, github, apiCalls,
                   response, result, clock, stdout, exitCode, trace>>

\* let name = RunnerName::new(..)
GenName ==
    /\ pc = "name"
    /\ \E now \in Clocks, seed \in 0..MaxSeed :
          /\ name' = Some(RunnerNameNew(args.v.fpga_target, args.v.fpga_identifier,
                                        args.v.location, now, seed))
          /\ clock' = Some(now)
    /\ pc' = "labels"
    /\ trace' = Append(trace, "name")
    /\ UNCHANGED <<argv, args, labels, info, key, github, apiCalls, response,
                   result, stdout, stderr, exitCode>>

\* let labels = RunnerLabels::new(..)
ResolveLabels ==
    /\ pc = "labels"
    /\ labels' = Some(RunnerLabelsNew(args.v.fpga_target, args.v.dry_run))
    /\ pc' = "info"
    /\ trace' = Append(trace, "labels")
    /\ UNCHANGED <<argv, args, name, info, key, github, apiCalls, response,
                   result, clock, stdout, stderr, exitCode>>

\* args.into(): a panic of todo!() unwinds out of main, exit status 101
IntoInfo ==
    /\ pc = "info"
    /\ LET r == CaliptraCiInfoFrom(args.v) IN
          IF r.panic
          THEN /\ stderr' = Append(stderr, [kind |-> "panic", msg |-> r.msg])
               /\ exitCode' = Some(ExitPanic)
               /\ pc' = "exited"
               /\ info' = info
          ELSE /\ info' = Some(r.v)
               /\ pc' = "read_key"
               /\ UNCHANGED <<stderr, exitCode>>
    /\ trace' = Append(trace, "stage_registry")
    /\ UNCHANGED <<argv, args, name, labels, key, github, apiCalls, response,
                   result, clock, stdout>>

\* `?` in main: the error is returned from main, which prints it with
\* "Error: {:?}" on standard error and exits with status 1
MainReturnsErr(e) ==
    /\ stderr' = Append(stderr, [kind |-> "error", e |-> e])
    /\ exitCode' = Some(ExitFailure)
    /\ pc' = "exited"

\* OctocrabWrapper::new: std::fs::read(info.key_path.clone())?
OctocrabNewReadKey ==
    /\ pc = "read_key"
    /\ \E r \in FsReadOutcomes :
          IF r.ok
          THEN /\ key' = Some([path |-> info.v.key_path, bytes |-> r.v, parsed |-> FALSE])
               /\ pc' = "parse_key"
               /\ UNCHANGED <<stderr, exitCode>>
          ELSE /\ MainReturnsErr(r.e)
               /\ key' = key
    /\ trace' = Append(trace, "key_read")
    /\ UNCHANGED <<argv, args, name, labels, info, github, apiCalls, response,
                   result, clock, stdout>>

\* jsonwebtoken::EncodingKey::from_rsa_pem
FromRsaPem(bytes) ==
    IF bytes = "rsa_pem" THEN Ok("EncodingKey") ELSE Err("InvalidKeyFormat")

\* the parse error is dropped and construction goes on
OctocrabNewParseKeyUnchecked ==
    /\ pc = "parse_key"
    /\ key' = key
    /\ pc' = "build"
    /\ trace' = Append(trace, "key_parse")
    /\ UNCHANGED <<argv, args, name, labels, info, github, apiCalls, response,
                   result, clock, stdout, stderr, exitCode>>

\* OctocrabWrapper::new: EncodingKey::from_rsa_pem(..)?
OctocrabNewParseKey ==
    /\ pc = "parse_key"
    /\ LET r == FromRsaPem(key.v.bytes) IN
          IF r.ok
          THEN /\ key' = Some([key.v EXCEPT !.parsed = TRUE])
               /\ pc' = "build"
               /\ UNCHANGED <<stderr, exitCode>>
          ELSE /\ MainReturnsErr(r.e)
               /\ key' = key
    /\ trace' = Append(trace, "key_parse")
    /\ UNCHANGED <<argv, args, name, labels, info, github, apiCalls, response,
                   result, clock, stdout>>

\* OctocrabWrapper::new: builder().app(..).build()? and .installation(..)?
OctocrabNewBuild ==
    /\ pc = "build"
    /\ \E o \in BuildOutcomes :
          IF o = "ok"
          THEN /\ github' = Some([github_org_name |-> info.v.github_org_name,
                                  app_id |-> info.v.github_app_id,
                                  installation_id |-> info.v.github_installation_id])
               /\ pc' = "exchange"
               /\ UNCHANGED <<stderr, exitCode>>
          ELSE /\ MainReturnsErr(o)
               /\ github' = github
    /\ trace' = Append(trace, "client_build")
    /\ UNCHANGED <<argv, args, name, labels, info, key, apiCalls, response,
                   result, clock, stdout>>

\* runner_jit_token: create_org_jit_runner_config(..).send()
SendRequest ==
    /\ pc = "exchange"
    /\ apiCalls' = Append(apiCalls,
                          [org |-> github.v.github_org_name,
                           name |-> name.v,
                           runner_group_id |-> DefaultRunnerGroup,
                           labels |-> labels.v,
                           app_id |-> github.v.app_id,
                           installation_id |-> github.v.installation_id])
    /\ pc' = "await"
    /\ trace' = Append(trace, "exchange")
    /\ UNCHANGED <<argv, args, name, labels, info, key, github, response,
                   result, clock, stdout, stderr, exitCode>>

\* the whole response body is returned as the token
RunnerJitTokenWholeBody(token) ==
    token.runner.name \o token.encoded_jit_config

\* runner_jit_token: Ok(token.encoded_jit_config)
RunnerJitToken(token) == token.encoded_jit_config

\* runner_jit_token: .await? on the answer
AwaitResponse ==
    /\ pc = "await"
    /\ \E r \in ApiOutcomes(apiCalls[Len(apiCalls)]) :
          /\ response' = Some(r)
          /\ result' = Some(IF r.ok THEN Ok(RunnerJitToken(r.v)) ELSE Err(r.e))
    /\ pc' = "output"
    /\ UNCHANGED <<argv, args, name, labels, info, key, github, apiCalls,
                   clock, stdout, stderr, exitCode, trace>>

\* both arms exit with status 0
MainMatchExitZero(r) ==
    IF r.ok
    THEN [out |-> r.v \o s_newline, err |-> <<>>, code |-> ExitSuccess]
    ELSE [out |-> <<>>, err |-> <<[kind |-> "failed", e |-> r.e]>>, code |-> ExitSuccess]

\* the match of main on the result: what is written and the exit status
MainMatch(r) ==
    IF r.ok
    THEN [out |-> r.v \o s_newline, err |-> <<>>, code |-> ExitSuccess]
    ELSE [out |-> <<>>, err |-> <<[kind |-> "failed", e |-> r.e]>>, code |-> ExitFailure]

\* the Err arm sends the request again, once
OutputRetry ==
    /\ pc = "output"
    /\ IF ~result.v.ok /\ Len(apiCalls) < 2
       THEN /\ pc' = "exchange"
            /\ UNCHANGED <<stdout, stderr, exitCode, trace>>
       ELSE /\ stdout' = stdout \o MainMatch(result.v).out
            /\ stderr' = stderr \o MainMatch(result.v).err
            /\ exitCode' = Some(MainMatch(result.v).code)
            /\ pc' = "exited"
            /\ trace' = IF result.v.ok THEN Append(trace, "output") ELSE trace
    /\ UNCHANGED <<argv, args, name, labels, info, key, github, apiCalls,
                   response, result, clock>>

\* println!/eprintln! and std::process::exit; "output" is the Ok arm
Output ==
    /\ pc = "output"
    /\ stdout' = stdout \o MainMatch(result.v).out
    /\ stderr' = stderr \o MainMatch(result.v).err
    /\ exitCode' = Some(MainMatch(result.v).code)
    /\ pc' = "exited"
    /\ trace' = IF result.v.ok THEN Append(trace, "output") ELSE trace
    /\ UNCHANGED <<argv, args, name, labels, info, key, github, apiCalls,
                   response, result, clock>>

Next ==
    \/ ParseArgsHelp
    \/ ParseArgsError
    \/ ParseArgsOk
    \/ Banner
    \/ GenName
    \/ ResolveLabels
    \/ IntoInfo
    \/ OctocrabNewReadKey
    \/ OctocrabNewParseKey
    \/ OctocrabNewBuild
    \/ SendRequest
    \/ AwaitResponse
    \/ Output

Spec == Init /\ [][Next]_vars

----------------------------------------------------------------------------
(* Properties *)

InTrace(e) == \E i \in 1..Len(trace) : trace[i] = e
HelpShown == InTrace("help")
Exited == pc = "exited"
Succeeded == response.some /\ response.v.ok
LastDiagnostic == stderr[Len(stderr)]
IsPrefix(s, t) == Len(s) <= Len(t) /\ SubSeq(t, 1, Len(s)) = s

\* s equals the accepted name a when letter case is ignored
SameIgnoringCase(s, a) ==
    /\ Len(s) = Len(a)
    /\ \A i \in 1..Len(s) : LowerChar(s[i]) = LowerChar(a[i])

AcceptedStageNames == {s_carl, s_staging, s_prod}
AcceptedTargetNames == {s_zcu104, s_zcu104_nightly, s_vck190}

\* C1: an invocation whose stage parses to Staging ends in a defined failure
\* (the panic of the unimplemented arm): no CaliptraCiInfo is produced, no
\* client is built from another stage's record, the key file is not read, no
\* API call is issued and nothing is written to standard output.
C1_StagingHardStop ==
    (argv.stage.some /\ SameIgnoringCase(argv.stage.v, s_staging)) =>
        /\ info = None
        /\ key = None
        /\ github = None
        /\ ~InTrace("key_read")
        /\ apiCalls = <<>>
        /\ (~HelpShown => stdout = <<>>)
        /\ InTrace("stage_registry") =>
              /\ Exited
              /\ exitCode = Some(ExitPanic)
              /\ LastDiagnostic.kind = "panic"

C1_Witness ==
    /\ args.some
    /\ args.v.stage = "Staging"
    /\ InTrace("stage_registry")
    /\ Exited

\* C2: the record resolved for the stage has an org name and an (app id,
\* installation id) pair that no other stage with an implemented mapping
\* resolves to, and its key_path is the path given on the command line.
C2_TableInjective ==
    info.some =>
        /\ info.v.key_path = argv.key_path
        /\ \A s \in Stage \ {args.v.stage} :
              LET o == CaliptraCiInfoFrom([args.v EXCEPT !.stage = s]) IN
              ~o.panic =>
                 /\ o.v.github_org_name # info.v.github_org_name
                 /\ <<o.v.github_app_id, o.v.github_installation_id>>
                       # <<info.v.github_app_id, info.v.github_installation_id>>
                 /\ o.v.key_path = argv.key_path

C2_Witness ==
    /\ info.some
    /\ args.v.stage = "Prod"
    /\ argv.key_path = "key.pem"

InvalidStage ==
    /\ argv.stage.some
    /\ \A a \in AcceptedStageNames : ~SameIgnoringCase(argv.stage.v, a)
InvalidTarget ==
    /\ argv.fpga_target.some
    /\ \A a \in AcceptedTargetNames : ~SameIgnoringCase(argv.fpga_target.v, a)
InvalidValues ==
    (IF InvalidStage THEN {[what |-> "stage", value |-> argv.stage.v]} ELSE {})
    \cup (IF InvalidTarget THEN {[what |-> "fpga", value |-> argv.fpga_target.v]} ELSE {})

\* C3: when the stage string or the target string is not an accepted value
\* (letter case ignored) the invocation ends in argument parsing: no Args, no
\* runner name, no labels, no credential lookup, no key read, no API call;
\* unless help was shown it exits with clap's usage error naming the value.
C3_InvalidRejectedAtParse ==
    (InvalidStage \/ InvalidTarget) =>
        /\ args = None
        /\ name = None
        /\ labels = None
        /\ info = None
        /\ key = None
        /\ github = None
        /\ apiCalls = <<>>
        /\ \A i \in 1..Len(trace) : trace[i] \in {"parse", "help"}
        /\ pc \in {"parse", "exited"}
        /\ (Exited /\ ~HelpShown) =>
              /\ exitCode = Some(ExitUsage)
              /\ Len(stderr) = 1
              /\ stderr[1] \in {[kind |-> "usage", what |-> e.what, value |-> e.value] :
                                  e \in InvalidValues}

C3_Witness ==
    /\ argv.stage = Some(<<"q","a">>)
    /\ argv.fpga_target = Some(s_vck190)
    /\ Exited
    /\ exitCode = Some(ExitUsage)

\* an invocation that ended without a token and without showing help
Failing == Exited /\ ~HelpShown /\ ~(result.some /\ result.v.ok)

\* C4 as stated: every failing invocation exits with status 1, with a
\* diagnostic on standard error and nothing on standard output.
C4_Original ==
    Failing =>
        /\ exitCode = Some(ExitFailure)
        /\ stderr # <<>>
        /\ stdout = <<>>

\* C4 amended: every failing invocation exits with a non-zero status (2 for an
\* argument error, 101 for the unimplemented stage, 1 for a key read, key
\* parse, client build or API error), its last write to standard error is a
\* diagnostic, and standard output is empty.
C4_FailureExit ==
    Failing =>
        /\ exitCode.some
        /\ exitCode.v # ExitSuccess
        /\ exitCode.v = (IF ~args.some THEN ExitUsage
                         ELSE IF ~info.some THEN ExitPanic
                         ELSE ExitFailure)
        /\ stderr # <<>>
        /\ LastDiagnostic.kind \in {"usage", "panic", "error", "failed"}
        /\ stdout = <<>>

C4_Witness ==
    /\ Failing
    /\ response.some
    /\ ~response.v.ok
    /\ exitCode = Some(ExitFailure)

\* C5: once the exchange has succeeded and main has exited, standard output
\* is the encoded JIT token of the API's answer followed by the line
\* terminator, the exit status is 0 and the stage banner is on standard
\* error; standard output is empty in every state before that (an invocation
\* that only shows help never reaches the exchange).
C5_OnlyTokenOnStdout ==
    /\ (Exited /\ Succeeded) =>
          /\ stdout = response.v.v.encoded_jit_config \o s_newline
          /\ exitCode = Some(ExitSuccess)
          /\ stderr = <<[kind |-> "banner", stage |-> args.v.stage]>>
    /\ (~Exited \/ (~Succeeded /\ ~HelpShown)) => stdout = <<>>

C5_Witness ==
    /\ Exited
    /\ Succeeded
    /\ stdout = <<"e","y","J","0","\n">>

\* C6: at most one create-org-JIT-runner-config request is sent; an
\* invocation that reached the exchange sent exactly one; after a failed
\* answer main only reports the failure and exits with status 1.
C6_SingleApiCall ==
    /\ Len(apiCalls) <= 1
    /\ InTrace("exchange") => Len(apiCalls) = 1
    /\ (response.some /\ ~response.v.ok) =>
          /\ pc \in {"output", "exited"}
          /\ Exited =>
                /\ exitCode = Some(ExitFailure)
                /\ LastDiagnostic = [kind |-> "failed", e |-> response.v.e]

C6_Witness ==
    /\ Exited
    /\ response.some
    /\ ~response.v.ok
    /\ Len(apiCalls) = 1

\* the targets whose arm of RunnerLabels::new uses the postfix
StagingCapable(t) == t = "Vck190"

\* C7: the labels of the target with dry_run and those with the opposite
\* dry_run have the same length and, position by position, the dry-run label
\* is the other label followed by "-staging" when the target is
\* staging-capable and the same label otherwise.
C7_DryRunOnlySuffix ==
    labels.some =>
        LET t == args.v.fpga_target
            mine == labels.v
            other == RunnerLabelsNew(t, ~args.v.dry_run)
            wet == IF args.v.dry_run THEN other ELSE mine
            dry == IF args.v.dry_run THEN mine ELSE other
        IN /\ Len(dry) = Len(wet)
           /\ \A i \in 1..Len(wet) :
                 dry[i] = IF StagingCapable(t) THEN wet[i] \o s_dash_staging
                          ELSE wet[i]

C7_Witness ==
    /\ labels.some
    /\ args.v.fpga_target = "Vck190"
    /\ args.v.dry_run
    /\ labels.v = <<s_vck190 \o s_dash_staging>>

\* C8: for either dry_run, Zcu104Nightly gets the base label of its board
\* followed by the nightly label, Zcu104 gets the base label alone, Vck190
\* gets one label of its own, and no target gets an empty label list.
C8_NightlyGetsBoth ==
    labels.some =>
        LET t == args.v.fpga_target IN
        /\ Len(labels.v) >= 1
        /\ t = "Zcu104" => labels.v = <<s_caliptra_fpga>>
        /\ t = "Zcu104Nightly" =>
              /\ Len(labels.v) = 2
              /\ labels.v[1] = RunnerLabelsNew("Zcu104", args.v.dry_run)[1]
              /\ labels.v[1] = s_caliptra_fpga
              /\ labels.v[2] = s_caliptra_fpga_nightly
        /\ t = "Vck190" =>
              /\ Len(labels.v) = 1
              /\ IsPrefix(s_vck190, labels.v[1])
              /\ labels.v[1] \notin {s_caliptra_fpga, s_caliptra_fpga_nightly}

C8_Witness ==
    /\ labels.some
    /\ args.v.fpga_target = "Zcu104Nightly"
    /\ args.v.dry_run
    /\ Len(labels.v) = 2

\* the number a decimal digit character stands for
DigitValue(c) == CHOOSE k \in 0..9 : DecDigits[k + 1] = c
IsDecDigit(c) == \E k \in 0..9 : DecDigits[k + 1] = c
IsHexDigit(c) == \E k \in 0..15 : HexDigits[k + 1] = c
DateLen == 10

\* C9: the runner name is board_type "-" location "-" identifier "-" nonce
\* "-" date: the nonce is 16 characters, each a hexadecimal digit; the date is
\* the local calendar date as YYYY-MM-DD; the board type is the same for
\* Zcu104 and Zcu104Nightly and another one for Vck190.
C9_RunnerNameFormat ==
    name.some =>
        LET n == name.v
            loc == args.v.location
            id == args.v.fpga_identifier
            tail == Len(loc) + Len(id) + NonceLen + DateLen + 4
            b == Len(n) - tail
            board == SubSeq(n, 1, b)
            atLoc == b + 1
            atId == atLoc + Len(loc) + 1
            atNonce == atId + Len(id) + 1
            atDate == atNonce + NonceLen + 1
            date == SubSeq(n, atDate + 1, Len(n))
            num(i, j) == IF j = i THEN DigitValue(date[i])
                         ELSE IF j = i + 1 THEN 10 * DigitValue(date[i]) + DigitValue(date[j])
                         ELSE 1000 * DigitValue(date[i]) + 100 * DigitValue(date[i + 1])
                              + 10 * DigitValue(date[i + 2]) + DigitValue(date[j])
        IN /\ b >= 1
           /\ board = BoardType(args.v.fpga_target)
           /\ BoardType("Zcu104") = BoardType("Zcu104Nightly")
           /\ BoardType("Vck190") # BoardType("Zcu104")
           /\ (args.v.fpga_target = "Vck190") = (board = s_vck190)
           /\ n[atLoc] = "-"
           /\ SubSeq(n, atLoc + 1, atId - 1) = loc
           /\ n[atId] = "-"
           /\ SubSeq(n, atId + 1, atNonce - 1) = id
           /\ n[atNonce] = "-"
           /\ \A i \in (atNonce + 1)..(atNonce + NonceLen) : IsHexDigit(n[i])
           /\ n[atDate] = "-"
           /\ Len(date) = DateLen
           /\ \A i \in {1, 2, 3, 4, 6, 7, 9, 10} : IsDecDigit(date[i])
           /\ date[5] = "-"
           /\ date[8] = "-"
           /\ Date(num(1, 4), num(6, 7), num(9, 10)) = clock.v.local

C9_Witness ==
    /\ name.some
    /\ args.v.fpga_target = "Zcu104Nightly"
    /\ clock.v.local # clock.v.utc
    /\ args.v.location = <<"s","-","1">>

\* the order of the components in main()
MainOrder ==
    <<"parse", "name", "labels", "stage_registry", "key_read", "key_parse",
      "client_build", "exchange", "output">>

\* the orders the claim states: both registries, then the runner name
ClaimedOrders ==
    {<<"parse", "stage_registry", "labels", "name", "key_read", "key_parse",
       "client_build", "exchange", "output">>,
     <<"parse", "labels", "stage_registry", "name", "key_read", "key_parse",
       "client_build", "exchange", "output">>}

\* the component has completed successfully
Completed(e) ==
    CASE e = "parse" -> args.some
      [] e = "name" -> name.some
      [] e = "labels" -> labels.some
      [] e = "stage_registry" -> info.some
      [] e = "key_read" -> key.some
      [] e = "key_parse" -> key.some /\ key.v.parsed
      [] e = "client_build" -> github.some
      [] e = "exchange" -> result.some /\ result.v.ok
      [] e = "output" -> Exited /\ exitCode = Some(ExitSuccess)
      [] OTHER -> FALSE

ApiCallOnlyWithCredentials ==
    apiCalls # <<>> =>
        /\ info.some
        /\ key.some
        /\ key.v.parsed
        /\ key.v.path = argv.key_path
        /\ github.some
        /\ apiCalls[1].org = info.v.github_org_name
        /\ apiCalls[1].app_id = info.v.github_app_id
        /\ apiCalls[1].installation_id = info.v.github_installation_id

\* C10 as stated: stage-credential and target-label resolution come first,
\* then runner-name generation, then key read, key parse, client build, the
\* exchange and the output, each after the earlier ones succeeded.
C10_Original ==
    /\ HelpShown \/ \E o \in ClaimedOrders : IsPrefix(trace, o)
    /\ ~HelpShown => \A i \in 1..(Len(trace) - 1) : Completed(trace[i])
    /\ ApiCallOnlyWithCredentials

\* C10 amended: the components run in the order argument parsing, runner-name
\* generation, target-label resolution, stage-credential lookup, key read,
\* key parse, client build, token exchange, output; each starts only after
\* every earlier one completed successfully, and the API call is sent only
\* with the stage's credentials resolved and the key read and parsed.
C10_LinearOrder ==
    /\ HelpShown \/ IsPrefix(trace, MainOrder)
    /\ ~HelpShown => \A i \in 1..(Len(trace) - 1) : Completed(trace[i])
    /\ ApiCallOnlyWithCredentials

C10_Witness ==
    /\ trace = MainOrder
    /\ Exited

====
